---- MODULE Spec2Model ----
(***************************************************************************)
(* Model of cfd_remesh_temp.py: a straight-line script that reads a source *)
(* table (value,x,y,z with a header) and a query table (x,y,z), assigns    *)
(* every query point the value of its nearest source point with            *)
(* scipy.interpolate.griddata(method='nearest'), and writes two CSV files. *)
(*                                                                         *)
(* Text is modelled as text: a file name is a sequence of characters, a    *)
(* file is a sequence of lines, a line a sequence of fields, and a field   *)
(* is a piece of text of one of four shapes (see Field).  Floating-point   *)
(* numbers are integers or NaN.  The script uses the Python 2 print        *)
(* statement (lines 90-93), so the libraries are those of Python 2.7.      *)
(***************************************************************************)
EXTENDS Integers, Sequences, FiniteSets, TLC

VARIABLES sys_argv, fs, fs0, pc, filename3, filename4,
          x, y, temp1, xi, yi, zi, temp2,
          err, usage, status, run, fs1

vars == <<sys_argv, fs, fs0, pc, filename3, filename4,
          x, y, temp1, xi, yi, zi, temp2, err, usage, status, run, fs1>>

-----------------------------------------------------------------------------
(* Bounds of the model *)

MaxSrcRows == 2
MaxQryRows == 2
MaxPts == 3
MaxPieces == 2

-----------------------------------------------------------------------------
(* Character strings *)

SufWith == <<"_","o","u","t","p","u","t","_","w","i","t","h","_",
             "c","o","o","r","d","i","n","a","t","e","s">>
SufSingle == <<"_","o","u","t","p","u","t","_","s","i","n","g","l","e","_",
               "c","o","l","u","m","n">>
DotCsv == <<".","c","s","v">>

\* first index of character c in s, 0 when absent
RECURSIVE FindFrom(_, _, _)
FindFrom(s, c, i) ==
    IF i > Len(s) THEN 0
    ELSE IF s[i] = c THEN i
    ELSE FindFrom(s, c, i + 1)

\* str.split(sep) for a one-character separator: the list of pieces
RECURSIVE Split(_, _)
Split(s, sep) ==
    LET i == FindFrom(s, sep, 1) IN
    IF i = 0 THEN <<s>>
    ELSE <<SubSeq(s, 1, i - 1)>> \o Split(SubSeq(s, i + 1, Len(s)), sep)

\* the text before the last ".", as filename.rsplit(".", 1)[0] gives
BasenameRsplit(f) ==
    LET ps == Split(f, ".") IN
    IF Len(ps) = 1 THEN f ELSE SubSeq(f, 1, Len(f) - Len(ps[Len(ps)]) - 1)

\* basename1[0], basename2[0]
Basename(f) == Split(f, ".")[1]

Filename3(f1, f2) == Basename(f1) \o <<"_">> \o Basename(f2) \o SufWith \o DotCsv

\* the second name built with the suffix of the first
Filename4SameSuffix(f1, f2) == Basename(f1) \o <<"_">> \o Basename(f2) \o SufWith \o DotCsv

Filename4(f1, f2) == Basename(f1) \o <<"_">> \o Basename(f2) \o SufSingle \o DotCsv

\* len(sys.argv) < 2: the script name counted as an argument
TooFewArgsOffByOne(argv) == Len(argv) < 2

\* len(sys.argv) < 3; sys.argv[0] is the script itself
TooFewArgs(argv) == Len(argv) < 3

-----------------------------------------------------------------------------
(* Text fields and floating-point values *)

\* a field of a CSV line:  "int"  digits only, as in 10
\*                         "dec"  digits with a fraction, as in 10.0
\*                         "nan"  the text nan
\*                         "word" any other text, as in abc or T
I(n) == [k |-> "int", v |-> n]
D(n) == [k |-> "dec", v |-> n]
W(n) == [k |-> "word", v |-> n]
NanText == [k |-> "nan", v |-> 0]

\* a float64: a number or NaN
F(n) == [nan |-> FALSE, v |-> n]
NaN == [nan |-> TRUE, v |-> 0]

\* genfromtxt's conversion of a field with dtype float and loose=True:
\* what float() accepts is converted, anything else becomes nan
ToFloat(t) == IF t.k \in {"int", "dec"} THEN F(t.v) ELSE NaN

\* fmt="%s" applied to a numpy float64
Str(f) == IF f.nan THEN NanText ELSE D(f.v)

\* header="T,x,y,z" with comments=""
HeaderOut == <<W(1), W(2), W(3), W(4)>>

-----------------------------------------------------------------------------
(* numpy arrays: [err, ndim, v]; v is a sequence of rows when ndim = 2 and *)
(* a sequence of floats when ndim = 1                                      *)

Failed(kind) == [err |-> kind, ndim |-> 0, v |-> <<>>]
Array(n, v) == [err |-> "", ndim |-> n, v |-> v]

\* np.genfromtxt(fname, delimiter=",", skip_header=skip)
GenFromTxt(files, fname, skip) ==
    IF fname \notin DOMAIN files THEN Failed("IOError")
    ELSE
      LET lines == files[fname]
          rows == IF Len(lines) <= skip THEN <<>>
                  ELSE SubSeq(lines, skip + 1, Len(lines))
      IN
      IF rows = <<>> THEN Array(1, <<>>)
      ELSE IF \E i \in 1..Len(rows) : Len(rows[i]) # Len(rows[1])
      THEN Failed("ValueError")
      ELSE
        LET m == [i \in 1..Len(rows) |->
                    [j \in 1..Len(rows[1]) |-> ToFloat(rows[i][j])]]
        IN
        \* the result is squeezed: one row or one column gives a 1-D array
        IF Len(rows) = 1 THEN Array(1, m[1])
        ELSE IF Len(rows[1]) = 1 THEN Array(1, [i \in 1..Len(rows) |-> m[i][1]])
        ELSE Array(2, m)

\* a[:,j] as if a 1-D array were a one-row table (np.atleast_2d)
ColAtLeast2d(a, j) ==
    IF a.ndim = 2
    THEN IF j + 1 > Len(a.v[1]) THEN Failed("IndexError")
         ELSE Array(1, [i \in 1..Len(a.v) |-> a.v[i][j + 1]])
    ELSE IF a.v = <<>> THEN Array(1, <<>>)
    ELSE IF j + 1 > Len(a.v) THEN Failed("IndexError")
    ELSE Array(1, <<a.v[j + 1]>>)

\* a[:,j] with j counted from 0: two indices need a 2-D array
Col(a, j) ==
    IF a.ndim # 2 THEN Failed("IndexError")
    ELSE IF j + 1 > Len(a.v[1]) THEN Failed("IndexError")
    ELSE Array(1, [i \in 1..Len(a.v) |-> a.v[i][j + 1]])

\* np.savetxt(fname, rows, delimiter=',', header=..., fmt="%s", comments=""),
\* appending to the file instead of replacing it
SaveTxtAppend(files, fname, head, rows) ==
    LET old == IF fname \in DOMAIN files THEN files[fname] ELSE <<>>
        text == head \o [i \in 1..Len(rows) |->
                           [j \in 1..Len(rows[i]) |-> Str(rows[i][j])]]
    IN [p \in DOMAIN files \cup {fname} |->
          IF p = fname THEN old \o text ELSE files[p]]

\* np.savetxt(fname, rows, delimiter=',', header=..., fmt="%s", comments="")
SaveTxt(files, fname, head, rows) ==
    LET text == head \o [i \in 1..Len(rows) |->
                           [j \in 1..Len(rows[i]) |-> Str(rows[i][j])]]
    IN [p \in DOMAIN files \cup {fname} |->
          IF p = fname THEN text ELSE files[p]]

-----------------------------------------------------------------------------
(* scipy.interpolate.griddata((x,y), values, (xi,yi), method='nearest')    *)

\* squared distance on the first coordinate alone
Dist2XOnly(ax, ay, bx, by) == (ax.v - bx.v) * (ax.v - bx.v)

\* squared Euclidean distance in the plane
Dist2(ax, ay, bx, by) ==
    (ax.v - bx.v) * (ax.v - bx.v) + (ay.v - by.v) * (ay.v - by.v)

\* a comparison with NaN is false, so a point with a NaN coordinate is
\* never nearer than the best found so far
Comparable(px, py, qx, qy) == ~px.nan /\ ~py.nan /\ ~qx.nan /\ ~qy.nan

\* cKDTree.query(k=1) on a tree that is one leaf (at most leafsize = 16
\* points): the points are scanned in row order and a point replaces the
\* best so far only when strictly nearer.  n + 1 stands for "no neighbour".
RECURSIVE Scan(_, _, _, _, _, _)
Scan(px, py, qx, qy, i, best) ==
    IF i > Len(px) THEN best
    ELSE IF Comparable(px[i], py[i], qx, qy)
            /\ (best > Len(px)
                \/ Dist2(px[i], py[i], qx, qy) < Dist2(px[best], py[best], qx, qy))
    THEN Scan(px, py, qx, qy, i + 1, i)
    ELSE Scan(px, py, qx, qy, i + 1, best)

NearestIdx(px, py, qx, qy) == Scan(px, py, qx, qy, 1, Len(px) + 1)

\* NearestNDInterpolator: values[tree.query(xi)[1]]
Griddata(px, py, values, qx, qy) ==
    IF \E i \in 1..Len(qx) : NearestIdx(px, py, qx[i], qy[i]) > Len(px)
    THEN Failed("IndexError")
    ELSE Array(1, [i \in 1..Len(qx) |-> values[NearestIdx(px, py, qx[i], qy[i])]])

-----------------------------------------------------------------------------
(* The script, one action per step                                         *)

filename1 == sys_argv[2]
filename2 == sys_argv[3]

Locals0 ==
    /\ filename3 = <<>> /\ filename4 = <<>>
    /\ x = <<>> /\ y = <<>> /\ temp1 = <<>>
    /\ xi = <<>> /\ yi = <<>> /\ zi = <<>> /\ temp2 = <<>>
    /\ err = "" /\ usage = FALSE /\ status = -1

\* an uncaught exception ends the interpreter with status 1
Fail(kind) == pc' = "failed" /\ err' = kind /\ status' = 1

\* lines 76-80: too few arguments, print the usage text and exit()
Usage ==
    /\ pc = "start"
    /\ TooFewArgs(sys_argv)
    /\ usage' = TRUE
    /\ status' = 0
    /\ pc' = "exited"
    /\ UNCHANGED <<sys_argv, fs, fs0, filename3, filename4,
                   x, y, temp1, xi, yi, zi, temp2, err, run, fs1>>

\* lines 84-89: the output file names
DeriveNames ==
    /\ pc = "start"
    /\ ~TooFewArgs(sys_argv)
    /\ IF Len(sys_argv) < 3
       THEN Fail("IndexError") /\ UNCHANGED <<filename3, filename4>>
       ELSE /\ filename3' = Filename3(filename1, filename2)
            /\ filename4' = Filename4(filename1, filename2)
            /\ pc' = "named"
            /\ UNCHANGED <<err, status>>
    /\ UNCHANGED <<sys_argv, fs, fs0, x, y, temp1, xi, yi, zi, temp2,
                   usage, run, fs1>>

\* lines 100-112: read the source table, take columns 1, 2 and 0
LoadSource ==
    /\ pc = "named"
    /\ LET data == GenFromTxt(fs, filename1, 1)
           cx == Col(data, 1)
           cy == Col(data, 2)
           ct == Col(data, 0)
       IN IF data.err # "" THEN Fail(data.err) /\ UNCHANGED <<x, y, temp1>>
          ELSE IF cx.err # "" THEN Fail(cx.err) /\ UNCHANGED <<x, y, temp1>>
          ELSE IF cy.err # "" THEN Fail(cy.err) /\ UNCHANGED <<x, y, temp1>>
          ELSE IF ct.err # "" THEN Fail(ct.err) /\ UNCHANGED <<x, y, temp1>>
          ELSE /\ x' = cx.v /\ y' = cy.v /\ temp1' = ct.v
               /\ pc' = "src"
               /\ UNCHANGED <<err, status>>
    /\ UNCHANGED <<sys_argv, fs, fs0, filename3, filename4,
                   xi, yi, zi, temp2, usage, run, fs1>>

\* lines 122-129: read the query table, take columns 0, 1 and 2
LoadQuery ==
    /\ pc = "src"
    /\ LET grid == GenFromTxt(fs, filename2, 0)
           cx == Col(grid, 0)
           cy == Col(grid, 1)
           cz == Col(grid, 2)
       IN IF grid.err # "" THEN Fail(grid.err) /\ UNCHANGED <<xi, yi, zi>>
          ELSE IF cx.err # "" THEN Fail(cx.err) /\ UNCHANGED <<xi, yi, zi>>
          ELSE IF cy.err # "" THEN Fail(cy.err) /\ UNCHANGED <<xi, yi, zi>>
          ELSE IF cz.err # "" THEN Fail(cz.err) /\ UNCHANGED <<xi, yi, zi>>
          ELSE /\ xi' = cx.v /\ yi' = cy.v /\ zi' = cz.v
               /\ pc' = "qry"
               /\ UNCHANGED <<err, status>>
    /\ UNCHANGED <<sys_argv, fs, fs0, filename3, filename4,
                   x, y, temp1, temp2, usage, run, fs1>>

\* line 150: temp2 = griddata((x,y),temp1,(xi,yi),method='nearest')
Resample ==
    /\ pc = "qry"
    /\ LET r == Griddata(x, y, temp1, xi, yi)
       IN IF r.err # "" THEN Fail(r.err) /\ UNCHANGED temp2
          ELSE /\ temp2' = r.v
               /\ pc' = "resampled"
               /\ UNCHANGED <<err, status>>
    /\ UNCHANGED <<sys_argv, fs, fs0, filename3, filename4,
                   x, y, temp1, xi, yi, zi, usage, run, fs1>>

\* np.transpose([temp2,yi,xi,zi]): the coordinate columns exchanged
WithCoordinatesSwapped(t, cx, cy, cz) ==
    [i \in 1..Len(t) |-> <<t[i], cy[i], cx[i], cz[i]>>]

\* np.transpose([temp2,xi,yi,zi])
WithCoordinates(t, cx, cy, cz) ==
    [i \in 1..Len(t) |-> <<t[i], cx[i], cy[i], cz[i]>>]

\* np.transpose([temp2])
SingleColumn(t) == [i \in 1..Len(t) |-> <<t[i]>>]

\* lines 167-173: the artifact with coordinates
WriteWithCoordinates ==
    /\ pc = "resampled"
    /\ fs' = SaveTxt(fs, filename3, <<HeaderOut>>,
                     WithCoordinates(temp2, xi, yi, zi))
    /\ pc' = "wrote1"
    /\ UNCHANGED <<sys_argv, fs0, filename3, filename4,
                   x, y, temp1, xi, yi, zi, temp2, err, usage, status, run, fs1>>

\* lines 178-179: the single-column artifact
WriteSingleColumn ==
    /\ pc = "wrote1"
    /\ fs' = SaveTxt(fs, filename4, <<>>, SingleColumn(temp2))
    /\ pc' = "wrote2"
    /\ UNCHANGED <<sys_argv, fs0, filename3, filename4,
                   x, y, temp1, xi, yi, zi, temp2, err, usage, status, run, fs1>>

\* lines 183-187: report the duration and exit()
Finish ==
    /\ pc = "wrote2"
    /\ status' = 0
    /\ pc' = "done"
    /\ UNCHANGED <<sys_argv, fs, fs0, filename3, filename4,
                   x, y, temp1, xi, yi, zi, temp2, err, usage, run, fs1>>

Terminated == pc \in {"exited", "done", "failed"}

\* the script is started again with the same arguments on the files the
\* first run left behind; a process starts with fresh variables
RunAgain ==
    /\ Terminated
    /\ run = 1
    /\ run' = 2
    /\ fs1' = fs
    /\ pc' = "start"
    /\ filename3' = <<>> /\ filename4' = <<>>
    /\ x' = <<>> /\ y' = <<>> /\ temp1' = <<>>
    /\ xi' = <<>> /\ yi' = <<>> /\ zi' = <<>> /\ temp2' = <<>>
    /\ err' = "" /\ usage' = FALSE /\ status' = -1
    /\ UNCHANGED <<sys_argv, fs, fs0>>

-----------------------------------------------------------------------------
(* Inputs *)

Script == <<"p", "y">>
A == <<"s", ".", "c", "s", "v">>
B == <<"g", ".", "c", "s", "v">>

SeqsUpTo(S, n) == UNION {[1..k -> S] : k \in 0..n}

\* the header line of the source table (skipped, never parsed)
HeaderIn == <<W(1), W(5), W(6), W(7)>>

\* data lines of a source table: value,x,y,z
SrcLinePool ==
    { <<I(10), I(0), I(0), I(0)>>,
      <<D(20), I(1), I(0), I(1)>>,
      <<I(30), D(0), I(1), I(0)>>,
      <<W(8),  I(1), I(1), I(0)>>,
      <<I(40), I(1), I(1), W(8)>>,
      <<I(50), I(0)>> }

\* lines of a query table: x,y,z
QryLinePool ==
    { <<I(0), I(0), I(1)>>,
      <<I(1), D(1), I(0)>>,
      <<D(1), I(0), W(8)>>,
      <<I(0), I(1)>> }

SrcFiles == {<<>>} \cup {<<HeaderIn>> \o r : r \in SeqsUpTo(SrcLinePool, MaxSrcRows)}
QryFiles == SeqsUpTo(QryLinePool, MaxQryRows)

\* an artifact left behind by an earlier run on other data
Stale == <<HeaderOut, <<D(0), D(0), D(0), D(0)>> >>

FsOf(src, qry, stale) ==
    (IF stale THEN (Filename3(A, B) :> Stale) ELSE <<>>)
      @@ (IF src.there THEN (A :> src.text) ELSE <<>>)
      @@ (B :> qry)

SrcChoices ==
    {[there |-> FALSE, text |-> <<>>]} \cup {[there |-> TRUE, text |-> t] : t \in SrcFiles}

ArgvPool == { <<Script>>, <<Script, A>>, <<Script, A, B>>, <<Script, A, B, A>> }

Init ==
    /\ sys_argv \in ArgvPool
    /\ fs \in {FsOf(s, q, st) : s \in SrcChoices, q \in QryFiles, st \in BOOLEAN}
    /\ fs0 = fs
    /\ pc = "start"
    /\ Locals0
    /\ run = 1
    /\ fs1 = <<>>

Next ==
    \/ Usage
    \/ DeriveNames
    \/ LoadSource
    \/ LoadQuery
    \/ Resample
    \/ WriteWithCoordinates
    \/ WriteSingleColumn
    \/ Finish
    \/ RunAgain

Spec == Init /\ [][Next]_vars

-----------------------------------------------------------------------------
(* The resampling step on every small point set: up to MaxPts source       *)
(* points on a 2 x 2 grid at two heights, row i carrying the value 10 i    *)

Unit == {0, 1}

PtsFiles ==
    UNION { { <<HeaderIn>> \o [i \in 1..n |-> <<I(10 * i), I(p[i][1]), I(p[i][2]), I(p[i][3])>>]
              : p \in [1..n -> Unit \X Unit \X Unit] }
            : n \in 1..MaxPts }

GridFiles ==
    { << <<I(q[1]), I(q[2]), I(q[3])>>, <<I(1 - q[1]), I(1 - q[2]), I(q[3])>> >>
      : q \in Unit \X Unit \X Unit }

InitNearest ==
    /\ sys_argv = <<Script, A, B>>
    /\ fs \in {(A :> s) @@ (B :> g) : s \in PtsFiles, g \in GridFiles}
    /\ fs0 = fs
    /\ pc = "start"
    /\ Locals0
    /\ run = 1
    /\ fs1 = <<>>

NextNearest ==
    \/ DeriveNames
    \/ LoadSource
    \/ LoadQuery
    \/ Resample

SpecNearest == InitNearest /\ [][NextNearest]_vars

-----------------------------------------------------------------------------
(* The file names on argument strings built from pieces that make an       *)
(* argument look like an output name                                       *)

RECURSIVE Concat(_)
Concat(ss) == IF ss = <<>> THEN <<>> ELSE Head(ss) \o Concat(Tail(ss))

Pieces == { <<"a">>, <<".">>, <<"_">>, SufWith, SufSingle, DotCsv }

Names == {Concat(ps) : ps \in SeqsUpTo(Pieces, MaxPieces)}

InitNames ==
    /\ sys_argv \in {<<Script, f1, f2>> : f1 \in Names, f2 \in Names}
    /\ fs = <<>>
    /\ fs0 = fs
    /\ pc = "start"
    /\ Locals0
    /\ run = 1
    /\ fs1 = <<>>

NextNames == DeriveNames

SpecNames == InitNames /\ [][NextNames]_vars

-----------------------------------------------------------------------------
(* Properties.  The helpers below read the input files as they were before *)
(* the first run (fs0) and restate what the claims say in their own terms. *)

ArgsGiven == Len(sys_argv) >= 3
SourceThere == ArgsGiven /\ sys_argv[2] \in DOMAIN fs0
SourceText == fs0[sys_argv[2]]
QueryText == fs0[sys_argv[3]]
\* the data lines of the source table: everything after the header line
SourceLines == IF Len(SourceText) <= 1 THEN <<>> ELSE Tail(SourceText)

IsNumber(t) == t.k \in {"int", "dec"}
WellFormed(line, n) == Len(line) = n /\ \A j \in 1..n : IsNumber(line[j])

\* squared planar distance between source line s (value,x,y,z) and query
\* line q (x,y,z)
PlanarDist2(s, q) ==
    (s[2].v - q[1].v) * (s[2].v - q[1].v) + (s[3].v - q[2].v) * (s[3].v - q[2].v)

\* source line k is a nearest one to query line i
IsNearest(k, i) ==
    \A j \in 1..Len(SourceLines) :
        PlanarDist2(SourceLines[k], QueryText[i]) <= PlanarDist2(SourceLines[j], QueryText[i])

\* query line i has two nearest source lines that carry different values
TieAt(i) ==
    \E k1, k2 \in 1..Len(SourceLines) :
        /\ k1 # k2 /\ IsNearest(k1, i) /\ IsNearest(k2, i)
        /\ ToFloat(SourceLines[k1][1]) # ToFloat(SourceLines[k2][1])

\* C1: once the resample step has run, every query point carries the value
\* of a source point at minimal planar distance (x,y columns only), a value
\* copied from one such point even when several are tied.
C1_NearestNeighbour ==
    pc = "resampled" =>
        /\ Len(temp2) = Len(QueryText)
        /\ \A i \in 1..Len(QueryText) :
              \E k \in 1..Len(SourceLines) :
                  IsNearest(k, i) /\ temp2[i] = ToFloat(SourceLines[k][1])

\* a resampled query point with tied nearest source points of different
\* values, one of them nearer than another source point once z is counted
C1_Witness ==
    /\ pc = "resampled"
    /\ \E i \in 1..Len(QueryText) :
          /\ TieAt(i)
          /\ \E k \in 1..Len(SourceLines) :
                SourceLines[k][4].v # QueryText[i][3].v /\ IsNearest(k, i)

\* C2: once both artifacts are written, data row i of the first is
\* (resampled value of query point i, x_i, y_i, z_i) with the coordinates of
\* line i of the query file, and row i of the second is that same value;
\* both have exactly one row per query line, in the order of the file.
C2_OrderPreserved ==
    pc \in {"wrote2", "done"} =>
        LET a1 == fs[filename3]
            a2 == fs[filename4]
            n == Len(QueryText)
        IN /\ Len(a1) = n + 1
           /\ Len(a2) = n
           /\ \A i \in 1..n :
                 /\ Len(a1[i + 1]) = 4
                 /\ \A j \in 1..3 : ToFloat(a1[i + 1][j + 1]) = ToFloat(QueryText[i][j])
                 /\ \E k \in 1..Len(SourceLines) :
                       IsNearest(k, i) /\ ToFloat(a1[i + 1][1]) = ToFloat(SourceLines[k][1])
                 /\ a2[i] = <<a1[i + 1][1]>>

\* a finished run whose query lines differ and got different values
C2_Witness ==
    /\ pc = "done"
    /\ Len(QueryText) >= 2
    /\ QueryText[1] # QueryText[2]
    /\ fs[filename4][1] # fs[filename4][2]

ValidSource ==
    /\ SourceThere
    /\ Len(SourceText) >= 3
    /\ \A i \in 1..Len(SourceLines) : WellFormed(SourceLines[i], 4)

ValidQuery == \A i \in 1..Len(QueryText) : WellFormed(QueryText[i], 3)

\* C3: with a valid source file and a query file of any number n >= 0 of
\* rows, the run completes, the first artifact is the header T,x,y,z and n
\* data rows, the second artifact is n rows.
C3_RowCountAnyN ==
    (Terminated /\ ValidSource /\ ValidQuery) =>
        /\ pc = "done"
        /\ Len(fs[filename3]) = Len(QueryText) + 1
        /\ fs[filename3][1] = HeaderOut
        /\ Len(fs[filename4]) = Len(QueryText)

\* C4: when the source file holds exactly one data row, the run succeeds
\* and every output row carries that row's value.
C4_SingleSource ==
    (/\ Terminated /\ SourceThere
     /\ Len(SourceText) = 2 /\ WellFormed(SourceText[2], 4)
     /\ ValidQuery /\ Len(QueryText) >= 2) =>
        /\ pc = "done"
        /\ \A i \in 1..Len(QueryText) :
              /\ ToFloat(fs[filename3][i + 1][1]) = ToFloat(SourceText[2][1])
              /\ ToFloat(fs[filename4][i][1]) = ToFloat(SourceText[2][1])

HasMalformedField ==
    /\ SourceThere
    /\ \E i \in 1..Len(SourceLines) :
          \E j \in 1..Len(SourceLines[i]) : ~IsNumber(SourceLines[i][j])

\* C5: a source file with a non-numeric field in a data row makes the run
\* end with an error at load time: the load never completes.
C5_MalformedRejected ==
    HasMalformedField => pc \in {"start", "named", "failed"}

EmptySource == SourceThere /\ Len(SourceText) <= 1

\* C6: when the source file is empty or holds only its header, the run
\* fails before resampling and no file is created or overwritten.
C6_EmptySourceRejected ==
    EmptySource =>
        /\ pc \in {"start", "named", "failed"}
        /\ temp2 = <<>>
        /\ fs = fs0

\* a failed run on a header-only source file, with an older artifact on disk
C6_Witness ==
    /\ EmptySource
    /\ Len(SourceText) = 1
    /\ pc = "failed"
    /\ Filename3(A, B) \in DOMAIN fs

\* C7: in a second run on the same arguments the files are at every moment
\* what the first run left: the inputs are as before the first run and
\* both artifacts are rewritten with the same content, ties included.
C7_Idempotent ==
    run = 2 =>
        /\ fs = fs1
        /\ \A i \in 2..Len(sys_argv) :
              sys_argv[i] \in DOMAIN fs0 =>
                  sys_argv[i] \in DOMAIN fs /\ fs[sys_argv[i]] = fs0[sys_argv[i]]

\* a second run that has written both artifacts, one query point being tied
C7_Witness ==
    /\ run = 2
    /\ pc = "done"
    /\ \E i \in 1..Len(QueryText) : TieAt(i)

\* the text of f before its first ".", the whole of f when it has none
BeforeFirstDot(f) ==
    CHOOSE b \in {SubSeq(f, 1, n) : n \in 0..Len(f)} :
        /\ \A i \in 1..Len(b) : b[i] # "."
        /\ (Len(b) = Len(f) \/ f[Len(b) + 1] = ".")

\* C8: the two output paths are b1 _ b2 followed by the fixed suffixes,
\* b1 and b2 being the arguments up to their first ".".
C8_OutputNames ==
    pc = "named" =>
        LET stem == BeforeFirstDot(sys_argv[2]) \o <<"_">> \o BeforeFirstDot(sys_argv[3])
        IN /\ filename3 = stem \o SufWith \o <<".", "c", "s", "v">>
           /\ filename4 = stem \o SufSingle \o <<".", "c", "s", "v">>

\* names derived from an argument with two dots and one with none
C8_Witness ==
    /\ pc = "named"
    /\ \E i, j \in 1..Len(sys_argv[2]) :
          i < j /\ sys_argv[2][i] = "." /\ sys_argv[2][j] = "."
    /\ Len(sys_argv[3]) > 0
    /\ \A i \in 1..Len(sys_argv[3]) : sys_argv[3][i] # "."

\* C9: the two output paths differ from both arguments and from each other.
C9_OutputsDistinct ==
    pc = "named" =>
        /\ filename3 # sys_argv[2] /\ filename3 # sys_argv[3]
        /\ filename4 # sys_argv[2] /\ filename4 # sys_argv[3]
        /\ filename3 # filename4

\* names derived from an argument that is itself spelled like an artifact
C9_Witness ==
    /\ pc = "named"
    /\ sys_argv[2] = <<"a">> \o SufWith
    /\ sys_argv[3] = SufWith \o DotCsv

\* C10: with fewer than two positional arguments the script prints the
\* usage text and exits with status 0, having read, computed and written
\* nothing; with two or more it never takes that exit.
C10_UsageExit ==
    IF Len(sys_argv) - 1 < 2
    THEN /\ pc \in {"start", "exited"}
         /\ pc = "exited" => (usage /\ status = 0)
         /\ fs = fs0
         /\ x = <<>> /\ xi = <<>> /\ temp2 = <<>>
    ELSE ~usage /\ pc # "exited"

\* the usage exit taken with exactly one positional argument
C10_Witness ==
    /\ pc = "exited"
    /\ Len(sys_argv) = 2
    /\ usage

====
